---- MODULE Spec2Model ----
(***************************************************************************)
(* Model of the retrieval-augmented query engine of rag-chatbot:           *)
(* utils/chat.py process_query and utils/document_processing.py            *)
(* retrieve_documents, run against an on-disk tree of vector indexes.      *)
(*                                                                         *)
(* A vector index is the sequence of its chunks in the order they were     *)
(* added (file by file, page by page); the distance of a chunk to the      *)
(* (fixed) query text is an attribute of the chunk.  A run exercises one   *)
(* call of one of the two operations against the tree it starts with.      *)
(* Similarity scores are exact rationals [num, den].  Answers of           *)
(* the language model are opaque tokens that record which call made them.  *)
(* The message store (add_message / add_sources) is taken as reliable in   *)
(* Spec; the faults modelled are those of the engine itself.               *)
(*                                                                         *)
(* SpecIngest is the ingestion side: concurrent callers of                 *)
(* process_and_chunk_file and the registry tables knowledge_bases and      *)
(* documents.  The read-only operations (the locate-and-load steps of      *)
(* process_query, get_compatible_knowledge_bases) are operators on the     *)
(* index tree: what a reader gets in a state is what it would get if it    *)
(* ran between two steps of the callers.  SpecSequential is the same       *)
(* pipeline with one caller at a time and an identifier of every           *)
(* embedding family.                                                       *)
(*                                                                         *)
(* SpecPersist is Spec with a message store whose add_sources can fail.    *)
(* SpecRag is the /query/rag endpoint of rag_apis.py (rag_query), one      *)
(* request per run.  SpecResolve applies get_embedding_folder and          *)
(* initialize_embedding_model to embedding identifiers, which are          *)
(* sequences of pieces so that a prefix test is a test on leading pieces.  *)
(***************************************************************************)
EXTENDS Integers, Sequences, FiniteSets, TLC

(* ------------------------------ bounds --------------------------------- *)

MaxDiskChunks == 2

MaxDist == 1

MaxK == 2

\* process_and_chunk_file calls in one run
MaxCalls == 2

\* length of the kb_names list of a /query/rag request
MaxRagKBs == 2

\* embedding identifiers resolved in one run
MaxResolved == 2

(* ------------------------------ universe ------------------------------- *)

KBs == {"kb1", "kb2"}

Sources == {"a.pdf", "b.pdf"}

\* (source filename, 0-based page) of the chunks that can be on disk
Keys == {<<"a.pdf", 0>>, <<"a.pdf", 1>>, <<"b.pdf", 0>>}

Chunks == [source : Sources, page : {0, 1}, dist : 0..MaxDist]

DiskChunks == {c \in Chunks : <<c.source, c.page>> \in Keys}

LegacyFolder == "FAISS_Index"

Folders == {LegacyFolder, "llama3.2", "openai", "gemma2", "deepseek", "other"}

\* folders in which Init places index directories
InitFolders == {LegacyFolder, "openai"}

\* a path that is not a directory, and a directory holding an index
NoDir == [isdir |-> FALSE, index |-> <<>>]

Dir(index) == [isdir |-> TRUE, index |-> index]

\* values of the local variable `answer` and of the returned content
Unbound == [kind |-> "unbound", kb |-> "", n |-> 0]

\* the answer text that one llm.invoke call for current_kb produced
KbAnswer(current_kb, call) == [kind |-> "kb_answer", kb |-> current_kb, n |-> call]

\* "I couldn't find any relevant information in the {n} selected knowledge bases ..."
NoInfoMessage(n) == [kind |-> "no_info", kb |-> "", n |-> n]

\* "I encountered an error while processing your query: ..."
ErrorMessage == [kind |-> "error", kb |-> "", n |-> 0]

NoResult == [status |-> "none", docs |-> <<>>]

(* ------------------------------ helpers -------------------------------- *)

RECURSIVE SeqsUpTo(_, _)
\* all sequences over S of length at most n
SeqsUpTo(S, n) ==
    IF n = 0 THEN {<<>>}
    ELSE LET shorter == SeqsUpTo(S, n - 1)
         IN  shorter \cup {Append(s, x) : s \in {t \in shorter : Len(t) = n - 1}, x \in S}

\* sequences over S without repetition
DistinctSeqs(S) ==
    {s \in SeqsUpTo(S, Cardinality(S)) : \A i, j \in 1..Len(s) : i # j => s[i] # s[j]}

SeqToSet(s) == {s[i] : i \in 1..Len(s)}

\* a < b for rationals with positive denominators
RatLess(a, b) == a.num * b.den < b.num * a.den

RatLeq(a, b) == a.num * b.den <= b.num * a.den

One == [num |-> 1, den |-> 1]

(* --------------------------- on-disk indexes --------------------------- *)

\* os.path.exists(path) and os.path.isdir(path), path = <<folder, kb>>
IsDir(dsk, path) == dsk[path].isdir

\* chat.py possible_paths: the probe order of process_query
possible_paths(current_kb) ==
    << <<LegacyFolder, current_kb>>,
       <<"llama3.2", current_kb>>,
       <<"openai", current_kb>>,
       <<"gemma2", current_kb>>,
       <<"deepseek", current_kb>> >>

\* position in possible_paths of the first path that is a directory,
\* 0 when the loop over possible_paths leaves kb_path = None
FindKbPath(dsk, current_kb) ==
    LET pp == possible_paths(current_kb)
        found == {i \in 1..Len(pp) : IsDir(dsk, pp[i])}
    IN  IF found = {} THEN 0
        ELSE CHOOSE i \in found : \A j \in found : i <= j

\* the index that process_query loads for current_kb (kb_path must be set)
KbIndex(dsk, current_kb) ==
    dsk[possible_paths(current_kb)[FindKbPath(dsk, current_kb)]].index

RECURSIVE InsertByDist(_, _)
\* insert c after every element whose distance is <= c.dist (stable)
InsertByDist(sorted, c) ==
    IF sorted = <<>> THEN <<c>>
    ELSE IF Head(sorted).dist <= c.dist
         THEN <<Head(sorted)>> \o InsertByDist(Tail(sorted), c)
         ELSE <<c>> \o sorted

RECURSIVE SortByDist(_)
SortByDist(index) ==
    IF index = <<>> THEN <<>>
    ELSE InsertByDist(SortByDist(SubSeq(index, 1, Len(index) - 1)), index[Len(index)])

\* FAISS similarity_search_with_score: the k nearest chunks, nearest first
similarity_search_with_score(index, k) ==
    LET ranked == SortByDist(index)
    IN  SubSeq(ranked, 1, IF k < Len(ranked) THEN k ELSE Len(ranked))

(* ------------------------------ scoring -------------------------------- *)

\* mutant of Relevance: 1 / distance
Relevance_inverse_distance(score) == [num |-> 1, den |-> score]

\* relevance = 1.0 / (1.0 + float(score))
Relevance(score) == [num |-> 1, den |-> 1 + score]

\* retrieve_documents: normalized_score = 1 / (1 + float(score))
normalized_score(score) == [num |-> 1, den |-> 1 + score]

\* the loop over docs_and_scores: tag every hit with kb_name, score, raw_score
TagDocs(docs_and_scores, current_kb) ==
    [i \in 1..Len(docs_and_scores) |->
        [source    |-> docs_and_scores[i].source,
         page      |-> docs_and_scores[i].page,
         kb_name   |-> current_kb,
         score     |-> Relevance(docs_and_scores[i].dist),
         raw_score |-> docs_and_scores[i].dist]]

(* ------------------------------- state --------------------------------- *)

VARIABLES
    disk,                \* [Folders \X KBs -> NoDir or index]
    pc,                  \* "idle", then the position of the one operation called
    kb_names,            \* process_query: the KB names being queried
    retrieval_k,
    kb_i,                \* 1-based position of the for loop over kb_names
    all_source_docs,
    all_kb_docs,
    all_answers,
    queried_kb_count,
    successful_kb_count,
    answer,              \* the local variable `answer`
    llm_calls,           \* number of llm.invoke calls made so far
    kb_log,              \* per processed KB, the outcome that the logger reported
    messages,            \* rows of the messages table, with their sources
    result,              \* what process_query returned
    rd_result,           \* what retrieve_documents returned
    knowledge_bases,     \* rows of the knowledge_bases table, by name
    documents,           \* rows of the documents table
    ing,                 \* per caller of process_and_chunk_file: position and locals
    calls,               \* number of process_and_chunk_file calls started
    successes,           \* per KB name, the number of calls that returned success
    saved,               \* (path, index) of every save_local that completed
    rag,                 \* the /query/rag request being served: position and locals
    resolved             \* the embedding identifiers resolved so far, with what each resolved to

vars == <<disk, pc, kb_names, retrieval_k, kb_i, all_source_docs, all_kb_docs,
          all_answers, queried_kb_count, successful_kb_count, answer,
          llm_calls, kb_log, messages, result, rd_result,
          knowledge_bases, documents, ing, calls, successes, saved, rag,
          resolved>>

query_vars == <<pc, kb_names, retrieval_k, kb_i, all_source_docs, all_kb_docs,
                all_answers, queried_kb_count, successful_kb_count, answer,
                llm_calls, kb_log, messages, result, rd_result>>

ingest_vars == <<knowledge_bases, documents, ing, calls, successes, saved>>

locals == <<all_source_docs, all_kb_docs, all_answers, queried_kb_count,
            successful_kb_count, answer, llm_calls, kb_log>>

EmptyMap == [k \in {} |-> <<>>]

(* --------------------------- ingestion: values ------------------------- *)

\* concurrent callers of process_and_chunk_file
Procs == {1, 2}

\* KB names that files are ingested into
IngestKBs == {"kb1"}

\* an embedding-model identifier is the sequence of its pieces, so that a
\* prefix test of the code is a test on the leading pieces
DefaultEmbeddingModel == <<"text", "-embedding", "-3-small">>

EmbeddingModels == {DefaultEmbeddingModel, <<"llama", "3.2">>}

ChunkingStrategies == {"recursive", "semantic_chunker", "bogus"}

\* uploaded files: a PDF of two pages, a DOCX of one section, and a text file
IngestFiles == {"a.pdf", "b.docx", "c.txt"}

\* file_name.endswith('.pdf') / ('.docx')
document_type(file) ==
    IF file = "a.pdf" THEN "pdf"
    ELSE IF file = "b.docx" THEN "docx"
    ELSE "unsupported"

\* total_pages of the loaded file
total_pages(file) == IF file = "a.pdf" THEN 2 ELSE 1

\* the chunks that create_chunking makes of the file's pages (page is 0-based)
FileChunks(file) ==
    [i \in 1..total_pages(file) |-> [source |-> file, page |-> i - 1, dist |-> i - 1]]

StartsWith(s, prefix) ==
    /\ Len(prefix) <= Len(s)
    /\ SubSeq(s, 1, Len(prefix)) = prefix

get_embedding_folder(embedding_model) ==
    IF StartsWith(embedding_model, <<"text", "-embedding">>) THEN "openai"
    ELSE IF StartsWith(embedding_model, <<"llama">>) THEN "llama3.2"
    ELSE IF StartsWith(embedding_model, <<"deepseek">>) THEN "deepseek"
    ELSE IF StartsWith(embedding_model, <<"gemma">>) THEN "gemma2"
    ELSE "other"

\* "{folder}/FAISS_Index/{kb_name}"
get_faiss_index_path(kb_name, embedding_model) ==
    <<get_embedding_folder(embedding_model), kb_name>>

\* no row of knowledge_bases for a name, and a row
NoRow == [exists |-> FALSE, embedding_model |-> <<>>, chunking_strategy |-> "",
          document_count |-> 0]

Row(embedding_model, chunking_strategy) ==
    [exists |-> TRUE, embedding_model |-> embedding_model,
     chunking_strategy |-> chunking_strategy, document_count |-> 0]

\* what process_and_chunk_file can return
Returned_dict(status, filename, page_count, chunk_count, kb_name, message) ==
    [type |-> "dict", status |-> status, filename |-> filename,
     page_count |-> page_count, chunk_count |-> chunk_count, kb_name |-> kb_name,
     message |-> message]

SuccessResult(file, kb_name) ==
    Returned_dict("success", file, total_pages(file), Len(FileChunks(file)), kb_name, "")

ErrorResult(message) == Returned_dict("error", "", 0, 0, "", message)

\* `return e`: the exception object itself
ExceptionObject(message) ==
    [type |-> "exception", status |-> "", filename |-> "", page_count |-> 0,
     chunk_count |-> 0, kb_name |-> "", message |-> message]

\* no call has returned to the caller yet
NoReturn ==
    [type |-> "none", status |-> "", filename |-> "", page_count |-> 0,
     chunk_count |-> 0, kb_name |-> "", message |-> ""]

\* a caller that is not inside process_and_chunk_file.  before and after are
\* the index directory of the call when it started and when it returned,
\* raised is the step of the index write that raised, if one did, and
\* recovered tells that the call ran the handler of the index write; outside
\* a call, the arguments are those of the call that `result` is of
IdleCall ==
    [pc |-> "idle", file |-> "", kb_name |-> "", embedding_model_name |-> <<>>,
     chunking_strategy_name |-> "", chunks |-> <<>>, vectorstore |-> <<>>,
     before |-> NoDir, after |-> NoDir, raised |-> "", recovered |-> FALSE,
     result |-> NoReturn]

IngestIdle ==
    /\ knowledge_bases = [kb \in IngestKBs |-> NoRow]
    /\ documents = <<>>
    /\ ing = [p \in Procs |-> IdleCall]
    /\ calls = 0
    /\ successes = [kb \in IngestKBs |-> 0]
    /\ saved = {}

(* ---------------------------- rag_query: values ----------------------- *)

\* the text of the user message, and the text that the language model
\* returned for the composed prompt
UserQuery == [kind |-> "query", kb |-> "", n |-> 0]

RagResponse == [kind |-> "rag_response", kb |-> "", n |-> 0]

\* no response was sent yet
NoRagResult == [status |-> "none", response |-> Unbound, sources |-> <<>>]

\* no /query/rag request is being served
RagIdle ==
    [pc |-> "idle", kb_names |-> <<>>, embedding_model |-> <<>>, retrieval_k |-> 0,
     kb_i |-> 0, all_sources |-> <<>>, result |-> NoRagResult]

\* one directory layout per KB: no directory, or an index under one folder
NoLayout == [folder |-> "", index |-> <<>>]

\* position of a chunk in the order in which a file's chunks are added to an
\* index: file by file, page by page
DocOrder(c) ==
    ((IF c.source = "a.pdf" THEN 0 ELSE 2) + c.page) * (MaxDist + 1) + c.dist

RECURSIVE IndexOf(_)
\* the index that holds the chunks of S, in the order they were added
IndexOf(S) ==
    IF S = {} THEN <<>>
    ELSE LET first == CHOOSE c \in S : \A d \in S : DocOrder(c) <= DocOrder(d)
         IN  <<first>> \o IndexOf(S \ {first})

Layouts ==
    {NoLayout} \cup {[folder |-> f, index |-> IndexOf(S)] :
                        f \in InitFolders,
                        S \in {T \in SUBSET DiskChunks : Cardinality(T) <= MaxDiskChunks}}

RECURSIVE LayoutChunks(_, _)
\* number of chunks that the layouts of the KBs in S hold together
LayoutChunks(lay, S) ==
    IF S = {} THEN 0
    ELSE LET kb == CHOOSE k \in S : TRUE
         IN  Len(lay[kb].index) + LayoutChunks(lay, S \ {kb})

MkDisk(lay) ==
    [p \in Folders \X KBs |->
        IF lay[p[2]].folder = p[1] THEN Dir(lay[p[2]].index) ELSE NoDir]

\* the index trees the query engine is run against
InitDisks ==
    {MkDisk(lay) : lay \in {l \in [KBs -> Layouts] : LayoutChunks(l, KBs) <= MaxDiskChunks}}

Init ==
    /\ disk \in InitDisks
    /\ pc = "idle"
    /\ kb_names = <<>>
    /\ retrieval_k = 0
    /\ kb_i = 0
    /\ all_source_docs = <<>>
    /\ all_kb_docs = EmptyMap
    /\ all_answers = <<>>
    /\ queried_kb_count = 0
    /\ successful_kb_count = 0
    /\ answer = Unbound
    /\ llm_calls = 0
    /\ kb_log = <<>>
    /\ messages = <<>>
    /\ result = NoResult
    /\ rd_result = NoResult
    /\ IngestIdle
    /\ rag = RagIdle
    /\ resolved = <<>>

(* ------------------------ ranking and formatting ----------------------- *)

RECURSIVE InsertByScore_before_equal(_, _)
\* mutant of InsertByScore: doc goes before the elements of equal score, as
\* after an ascending sort followed by reverse()
InsertByScore_before_equal(sorted, doc) ==
    IF sorted = <<>> THEN <<doc>>
    ELSE IF RatLess(doc.score, Head(sorted).score)
         THEN <<Head(sorted)>> \o InsertByScore_before_equal(Tail(sorted), doc)
         ELSE <<doc>> \o sorted

RECURSIVE InsertByScore(_, _)
\* insert doc after every element whose score is >= doc.score: list.sort is stable,
\* also with reverse=True
InsertByScore(sorted, doc) ==
    IF sorted = <<>> THEN <<doc>>
    ELSE IF RatLeq(doc.score, Head(sorted).score)
         THEN <<Head(sorted)>> \o InsertByScore(Tail(sorted), doc)
         ELSE <<doc>> \o sorted

\* mutant of SortByScore: the list is left in collection order
SortByScore_unsorted(docs) == docs

RECURSIVE SortByScore(_)
\* all_source_docs.sort(key=score, reverse=True)
SortByScore(docs) ==
    IF docs = <<>> THEN <<>>
    ELSE InsertByScore(SortByScore(SubSeq(docs, 1, Len(docs) - 1)), docs[Len(docs)])

source_key(doc) == <<doc.source, doc.page>>

RECURSIVE Deduplicate_by_source(_, _)
\* mutant of Deduplicate: the key is the source filename alone
Deduplicate_by_source(docs, seen_sources) ==
    IF docs = <<>> THEN <<>>
    ELSE IF Head(docs).source \in seen_sources
         THEN Deduplicate_by_source(Tail(docs), seen_sources)
         ELSE <<Head(docs)>> \o Deduplicate_by_source(Tail(docs), seen_sources \cup {Head(docs).source})

RECURSIVE Deduplicate(_, _)
\* keep the first doc of every (source, page), in order
Deduplicate(docs, seen_sources) ==
    IF docs = <<>> THEN <<>>
    ELSE IF source_key(Head(docs)) \in seen_sources
         THEN Deduplicate(Tail(docs), seen_sources)
         ELSE <<Head(docs)>> \o Deduplicate(Tail(docs), seen_sources \cup {source_key(Head(docs))})

\* the source dict built for a doc: the page is presented 1-based
FormatSource(doc, kb_name) ==
    [source |-> doc.source, page |-> doc.page + 1, score |-> doc.score, kb_name |-> kb_name]

\* mutant of FormatSources: only the best-ranked document is reported
FormatSources_top_only(docs) ==
    [i \in 1..(IF Len(docs) > 0 THEN 1 ELSE 0) |-> FormatSource(docs[i], docs[i].kb_name)]

FormatSources(docs) == [i \in 1..Len(docs) |-> FormatSource(docs[i], docs[i].kb_name)]

\* the KB-specific tab: per key of all_kb_docs, its docs deduplicated
KbSources(kb_docs) ==
    [kb \in DOMAIN kb_docs |->
        LET unique == Deduplicate(kb_docs[kb], {})
        IN  [i \in 1..Len(unique) |-> FormatSource(unique[i], kb)]]

(* ----------------------------- process_query --------------------------- *)

\* entry of process_query: choice of the KB list, the locals of the try block
Call(names_in, name_in, k) ==
    /\ pc = "idle"
    /\ retrieval_k' = k
    /\ IF Len(names_in) > 0
       THEN /\ kb_names' = names_in
            /\ pc' = "loop"
            /\ result' = result
       ELSE IF name_in # ""
       THEN /\ kb_names' = <<name_in>>
            /\ pc' = "loop"
            /\ result' = result
       ELSE \* raise ValueError("No knowledge base specified"), outside the try
            /\ kb_names' = names_in
            /\ pc' = "raised"
            /\ result' = [status |-> "raised"]
    /\ kb_i' = 1
    /\ all_source_docs' = <<>>
    /\ all_kb_docs' = EmptyMap
    /\ all_answers' = <<>>
    /\ queried_kb_count' = 0
    /\ successful_kb_count' = 0
    /\ kb_log' = <<>>
    /\ UNCHANGED <<resolved, rag, ingest_vars, disk, answer, llm_calls, messages, rd_result>>

InLoop == pc = "loop" /\ kb_i <= Len(kb_names)

current_kb == kb_names[kb_i]

\* what vectorstore.similarity_search_with_score(query, k) returns for current_kb
docs_and_scores == similarity_search_with_score(KbIndex(disk, current_kb), retrieval_k)

\* mutant of Skip: the failure ends the loop (break instead of continue)
Skip_break(outcome) ==
    /\ queried_kb_count' = queried_kb_count + 1
    /\ kb_i' = Len(kb_names) + 1
    /\ kb_log' = Append(kb_log, outcome)
    /\ UNCHANGED <<resolved, rag, ingest_vars, disk, pc, kb_names, retrieval_k, all_source_docs, all_kb_docs,
                   all_answers, successful_kb_count, answer, llm_calls, messages,
                   result, rd_result>>

\* `continue` before any document of current_kb was added
Skip(outcome) ==
    /\ queried_kb_count' = queried_kb_count + 1
    /\ kb_i' = kb_i + 1
    /\ kb_log' = Append(kb_log, outcome)
    /\ UNCHANGED <<resolved, rag, ingest_vars, disk, pc, kb_names, retrieval_k, all_source_docs, all_kb_docs,
                   all_answers, successful_kb_count, answer, llm_calls, messages,
                   result, rd_result>>

\* no possible path is a directory
KBNotFound ==
    /\ InLoop
    /\ FindKbPath(disk, current_kb) = 0
    /\ Skip("not_found")

\* initialize_embedding_model raises
KBEmbedFail ==
    /\ InLoop
    /\ FindKbPath(disk, current_kb) # 0
    /\ Skip("embed_error")

\* FAISS.load_local raises
KBLoadFail ==
    /\ InLoop
    /\ FindKbPath(disk, current_kb) # 0
    /\ Skip("load_error")

\* similarity_search_with_score raises
KBSearchFail ==
    /\ InLoop
    /\ FindKbPath(disk, current_kb) # 0
    /\ Skip("search_error")

\* the search returns no documents
KBNoDocs ==
    /\ InLoop
    /\ FindKbPath(disk, current_kb) # 0
    /\ docs_and_scores = <<>>
    /\ Skip("no_docs")

\* the documents of current_kb are stored before the language model is used
AddDocs(outcome) ==
    LET kb_docs == TagDocs(docs_and_scores, current_kb)
    IN  /\ all_kb_docs' = [kb \in DOMAIN all_kb_docs \cup {current_kb} |->
                              IF kb = current_kb THEN kb_docs ELSE all_kb_docs[kb]]
        /\ all_source_docs' = all_source_docs \o kb_docs
        /\ queried_kb_count' = queried_kb_count + 1
        /\ kb_i' = kb_i + 1
        /\ kb_log' = Append(kb_log, outcome)

HasDocs ==
    /\ InLoop
    /\ FindKbPath(disk, current_kb) # 0
    /\ docs_and_scores # <<>>

\* constructing ChatOpenAI / ChatOllama raises
KBLlmInitFail ==
    /\ HasDocs
    /\ AddDocs("llm_init_error")
    /\ UNCHANGED <<resolved, rag, ingest_vars, disk, pc, kb_names, retrieval_k, all_answers, successful_kb_count,
                   answer, llm_calls, messages, result, rd_result>>

\* llm.invoke raises
KBLlmCallFail ==
    /\ HasDocs
    /\ AddDocs("llm_error")
    /\ llm_calls' = llm_calls + 1
    /\ UNCHANGED <<resolved, rag, ingest_vars, disk, pc, kb_names, retrieval_k, all_answers, successful_kb_count,
                   answer, messages, result, rd_result>>

\* llm.invoke returns the per-KB answer
KBAnswered ==
    /\ HasDocs
    /\ AddDocs("answered")
    /\ llm_calls' = llm_calls + 1
    /\ answer' = KbAnswer(current_kb, llm_calls + 1)
    /\ all_answers' = Append(all_answers, <<current_kb, answer'>>)
    /\ successful_kb_count' = successful_kb_count + 1
    /\ UNCHANGED <<resolved, rag, ingest_vars, disk, pc, kb_names, retrieval_k, messages, result, rd_result>>

\* mutant of FinalAnswer: no branch for an empty all_answers
FinalAnswer_no_empty_branch(answers, queried, local_answer) ==
    IF Len(answers) = 1 THEN answers[1][2] ELSE local_answer

\* mutant of FinalAnswer: the single answer is taken for no answer
FinalAnswer_off_by_one(answers, queried, local_answer) ==
    IF Len(answers) <= 1 THEN NoInfoMessage(queried) ELSE local_answer

\* "Determine the final answer": with two or more answers the branch assigns
\* nothing, so the local variable keeps the value of the last assignment
FinalAnswer(answers, queried, local_answer) ==
    IF Len(answers) = 0 THEN NoInfoMessage(queried)
    ELSE IF Len(answers) = 1 THEN answers[1][2]
    ELSE local_answer

\* add_message followed by add_sources on the new row
AddMessage(msgs, content, sources) ==
    Append(msgs, [role |-> "assistant", content |-> content, sources |-> sources])

\* after the loop: rank, deduplicate, pick the answer, format, persist, return
Finalize ==
    /\ pc = "loop"
    /\ kb_i > Len(kb_names)
    /\ LET sorted == SortByScore(all_source_docs)
           unique_source_docs == Deduplicate(sorted, {})
           final == FinalAnswer(all_answers, queried_kb_count, answer)
           query_relevant_sources == FormatSources(unique_source_docs)
           kb_sources == KbSources(all_kb_docs)
       IN  /\ all_source_docs' = sorted
           /\ answer' = final
           /\ IF final = Unbound
              THEN \* UnboundLocalError, caught by the outer except
                   /\ messages' = AddMessage(messages, ErrorMessage, <<>>)
                   /\ result' = [status |-> "returned", content |-> ErrorMessage,
                                 query_relevant |-> <<>>, kb_specific |-> EmptyMap,
                                 message_id |-> Len(messages) + 1, error |-> TRUE]
              ELSE /\ messages' = AddMessage(messages, final, query_relevant_sources)
                   /\ result' = [status |-> "returned", content |-> final,
                                 query_relevant |-> query_relevant_sources,
                                 kb_specific |-> kb_sources,
                                 message_id |-> Len(messages) + 1, error |-> FALSE]
    /\ pc' = "done"
    /\ UNCHANGED <<resolved, rag, ingest_vars, disk, kb_names, retrieval_k, kb_i, all_kb_docs, all_answers,
                   queried_kb_count, successful_kb_count, llm_calls, kb_log, rd_result>>

\* Finalize when add_sources raises (the connection or an INSERT fails) after
\* add_message has committed the answer: the rows of add_sources are not
\* committed, and the handler of the outer try appends the error message
FinalizeSourcesFail ==
    /\ pc = "loop"
    /\ kb_i > Len(kb_names)
    /\ LET sorted == SortByScore(all_source_docs)
           unique_source_docs == Deduplicate(sorted, {})
           final == FinalAnswer(all_answers, queried_kb_count, answer)
           query_relevant_sources == FormatSources(unique_source_docs)
       IN  /\ final # Unbound
           \* `if all_sources:` add_sources is called for a non-empty list only
           /\ query_relevant_sources # <<>>
           /\ all_source_docs' = sorted
           /\ answer' = final
           /\ messages' = AddMessage(AddMessage(messages, final, <<>>), ErrorMessage, <<>>)
           /\ result' = [status |-> "returned", content |-> ErrorMessage,
                         query_relevant |-> <<>>, kb_specific |-> EmptyMap,
                         message_id |-> Len(messages) + 2, error |-> TRUE]
    /\ pc' = "done"
    /\ UNCHANGED <<resolved, rag, ingest_vars, disk, kb_names, retrieval_k, kb_i, all_kb_docs, all_answers,
                   queried_kb_count, successful_kb_count, llm_calls, kb_log, rd_result>>

(* --------------------------- retrieve_documents ------------------------ *)

\* retrieve_documents reads the un-partitioned path FAISS_Index/{kb_name}.
\* It shares no state with process_query and both only read the disk.
RetrieveDocuments(kb_name, k, fails) ==
    /\ pc = "idle"
    /\ pc' = "retrieved"
    /\ LET path == <<LegacyFolder, kb_name>>
       IN  IF ~IsDir(disk, path) \/ fails
           THEN rd_result' = [status |-> "raised", docs |-> <<>>]
           ELSE LET found == similarity_search_with_score(disk[path].index, k)
                IN  rd_result' =
                      [status |-> "returned",
                       docs |-> [i \in 1..Len(found) |->
                                   [source |-> found[i].source, page |-> found[i].page,
                                    dist |-> found[i].dist,
                                    score |-> normalized_score(found[i].dist)]]]
    /\ UNCHANGED <<resolved, rag, ingest_vars, disk, kb_names, retrieval_k, kb_i, locals, messages, result>>

(* ------------------------ embedding identifiers ------------------------ *)

\* identifiers without surrounding whitespace: the default, an older hosted
\* embedding model, one per local model family, a sentence-transformers name
CoreModels ==
    {DefaultEmbeddingModel, <<"text", "-similarity", "-ada-001">>, <<"llama", "3.2">>,
     <<"deepseek", "-r1">>, <<"gemma", "2:2b">>, <<"all-MiniLM", "-L6-v2">>}

\* the identifiers as a caller can pass them, a blank before or after included
Identifiers ==
    {lead \o core \o trail : lead \in {<<>>, <<" ">>}, core \in CoreModels,
                             trail \in {<<>>, <<" ">>}}

RECURSIVE lstrip(_)
lstrip(s) == IF s # <<>> /\ Head(s) = " " THEN lstrip(Tail(s)) ELSE s

RECURSIVE rstrip(_)
rstrip(s) ==
    IF s # <<>> /\ s[Len(s)] = " " THEN rstrip(SubSeq(s, 1, Len(s) - 1)) ELSE s

\* str.strip()
strip(s) == rstrip(lstrip(s))

\* the class of the client that initialize_embedding_model returns
initialize_embedding_model(embedding_model_in) ==
    LET embedding_model == strip(embedding_model_in)
    IN  IF StartsWith(embedding_model, <<"text">>) THEN "OpenAIEmbeddings"
        ELSE IF \/ StartsWith(embedding_model, <<"deepseek">>)
                \/ StartsWith(embedding_model, <<"llama">>)
                \/ StartsWith(embedding_model, <<"gemma">>)
        THEN "OllamaEmbeddings"
        ELSE "HuggingFaceEmbeddings"

\* one identifier is given to get_embedding_folder and to
\* initialize_embedding_model, as process_and_chunk_file and get_retriever do
Resolve(embedding_model) ==
    /\ Len(resolved) < MaxResolved
    /\ resolved' = Append(resolved,
                          [embedding_model |-> embedding_model,
                           folder |-> get_embedding_folder(embedding_model),
                           embeddings |-> initialize_embedding_model(embedding_model)])
    /\ UNCHANGED <<rag, ingest_vars, query_vars, disk>>

(* ------------------------------- rag_query ----------------------------- *)

\* round(x) of Python for the rational num/den >= 0: the nearest integer, a
\* tie going to the even one
round(num, den) ==
    LET q == num \div den
        r == num % den
    IN  IF 2 * r < den THEN q
        ELSE IF 2 * r > den THEN q + 1
        ELSE IF q % 2 = 0 THEN q ELSE q + 1

\* relevance = 1 / (1 + float(score)); relevance_percent = round(relevance * 100)
relevance_percent(score) ==
    LET relevance == Relevance(score)
    IN  [num |-> round(relevance.num * 100, relevance.den), den |-> 1]

\* the dicts appended to all_sources for the hits of one KB
RagSources(found, kb_name) ==
    [i \in 1..Len(found) |->
        [source |-> found[i].source, page |-> found[i].page + 1,
         score |-> relevance_percent(found[i].dist), kb_name |-> kb_name]]

\* get_retriever raises ValueError unless the family-keyed path of the KB is
\* a directory that is not empty
RetrieverPathOk(dsk, kb_name, embedding_model_name) ==
    LET path == get_faiss_index_path(kb_name, embedding_model_name)
    IN  /\ path \in DOMAIN dsk
        /\ IsDir(dsk, path)
        /\ dsk[path].index # <<>>

\* db_add_message(conversation_id, role, content, user_name=None)
db_add_message(msgs, role, content) ==
    Append(msgs, [role |-> role, content |-> content, sources |-> <<>>])

\* lines 259-268: the user message is saved, then the locals are set up
RagQuery(kb_names_in, embedding_model, k) ==
    /\ rag.pc = "idle"
    /\ messages' = db_add_message(messages, "user", UserQuery)
    /\ rag' = [RagIdle EXCEPT !.pc = "loop", !.kb_names = kb_names_in,
                              !.embedding_model = embedding_model,
                              !.retrieval_k = k, !.kb_i = 1]
    /\ UNCHANGED <<resolved, ingest_vars, disk, pc, kb_names, retrieval_k, kb_i, locals,
                   result, rd_result>>

\* lines 270-288: one pass of the loop over req.kb_names; any exception of
\* get_retriever or of the search is swallowed by `continue`
RagKB(fails) ==
    /\ rag.pc = "loop"
    /\ rag.kb_i <= Len(rag.kb_names)
    /\ LET kb_name == rag.kb_names[rag.kb_i]
           path == get_faiss_index_path(kb_name, rag.embedding_model)
       IN  IF fails \/ ~RetrieverPathOk(disk, kb_name, rag.embedding_model)
           THEN rag' = [rag EXCEPT !.kb_i = @ + 1]
           ELSE rag' = [rag EXCEPT
                          !.kb_i = @ + 1,
                          !.all_sources = @ \o
                              RagSources(similarity_search_with_score(
                                             disk[path].index, rag.retrieval_k),
                                         kb_name)]
    /\ UNCHANGED <<resolved, ingest_vars, query_vars, disk>>

\* lines 289-296: call_langchain_chat is called outside any try, so its
\* exception leaves rag_query; otherwise the assistant message is saved and
\* the response is returned with all_sources
RagLlm(fails) ==
    /\ rag.pc = "loop"
    /\ rag.kb_i > Len(rag.kb_names)
    /\ IF fails
       THEN /\ rag' = [rag EXCEPT !.pc = "raised",
                                  !.result = [NoRagResult EXCEPT !.status = "raised"]]
            /\ messages' = messages
       ELSE /\ rag' = [rag EXCEPT !.pc = "done",
                                  !.result = [status |-> "returned",
                                              response |-> RagResponse,
                                              sources |-> rag.all_sources]]
            /\ messages' = db_add_message(messages, "assistant", RagResponse)
    /\ UNCHANGED <<resolved, ingest_vars, disk, pc, kb_names, retrieval_k, kb_i, locals,
                   result, rd_result>>

(* ------------------------ process_and_chunk_file ----------------------- *)

\* create_chunking: the chunks, None (the "semantic_chunker" branch builds a
\* splitter and falls off the end of the function), or ValueError
create_chunking(chunking_type, file) ==
    IF chunking_type \in {"text_splitter", "recursive", "semantic_percentile",
                          "semantic_interquartile", "semantic_std_dev"}
    THEN [kind |-> "chunks", chunks |-> FileChunks(file)]
    ELSE IF chunking_type = "semantic_chunker"
    THEN [kind |-> "none", chunks |-> <<>>]
    ELSE [kind |-> "raise", chunks |-> <<>>]

\* mutant of register_knowledge_base: an existing row takes the new attributes
register_knowledge_base_upsert(rows, name, embedding_model, chunking_strategy) ==
    [rows EXCEPT ![name] =
        [Row(embedding_model, chunking_strategy) EXCEPT
            !.document_count = rows[name].document_count]]

\* INSERT; on IntegrityError (the name is UNIQUE) the existing row is kept
register_knowledge_base(rows, name, embedding_model, chunking_strategy) ==
    IF rows[name].exists THEN rows
    ELSE [rows EXCEPT ![name] = Row(embedding_model, chunking_strategy)]

IndexPath(p) == get_faiss_index_path(ing[p].kb_name, ing[p].embedding_model_name)

\* the call of caller p returns value
Finish(p, call, value) ==
    /\ ing' = [ing EXCEPT ![p] =
                 [IdleCall EXCEPT
                     !.kb_name = call.kb_name,
                     !.embedding_model_name = call.embedding_model_name,
                     !.before = call.before,
                     !.raised = call.raised,
                     !.recovered = call.recovered,
                     !.after = disk[get_faiss_index_path(call.kb_name,
                                                         call.embedding_model_name)],
                     !.result = value]]
    /\ successes' = IF value.status = "success"
                    THEN [successes EXCEPT ![call.kb_name] = @ + 1]
                    ELSE successes

\* the outer `except Exception`: {"status": "error", "message": str(e), ...}
Fail(p, message) == Finish(p, ing[p], ErrorResult(message))

Goto(p, label) ==
    /\ ing' = [ing EXCEPT ![p].pc = label]
    /\ successes' = successes

\* a step of the index write (lines 346-361) raises: control goes to the
\* handler at line 362
Raise(p, step) ==
    /\ ing' = [ing EXCEPT ![p].pc = "rmtree", ![p].raised = step]
    /\ successes' = successes

\* lines 273-327: register the KB, then the steps local to the call (load the
\* file, initialize the embedding model, chunk).  Callers are numbered in the
\* order of their first call.
IngestStart(p, file, kb_name, embedding_model_name, chunking_strategy_name, outcome) ==
    /\ ing[p].pc = "idle"
    /\ calls < MaxCalls
    /\ p = 1 \/ calls > 0
    /\ calls' = calls + 1
    /\ LET call == [IdleCall EXCEPT
                       !.file = file, !.kb_name = kb_name,
                       !.embedding_model_name = embedding_model_name,
                       !.chunking_strategy_name = chunking_strategy_name,
                       !.before = disk[get_faiss_index_path(kb_name, embedding_model_name)]]
           chunked == create_chunking(chunking_strategy_name, file)
       IN  IF outcome = "db_error"
           THEN /\ knowledge_bases' = knowledge_bases
                /\ Finish(p, call, ErrorResult("register_knowledge_base"))
           ELSE /\ knowledge_bases' =
                      register_knowledge_base(knowledge_bases, kb_name,
                                              embedding_model_name, chunking_strategy_name)
                /\ IF document_type(file) = "unsupported"
                   THEN Finish(p, call, ErrorResult("Unsupported file format"))
                   ELSE IF outcome = "error"
                   THEN Finish(p, call, ErrorResult("load or embedding error"))
                   ELSE IF chunked.kind = "raise"
                   THEN Finish(p, call, ErrorResult("Invalid chunking type"))
                   ELSE /\ ing' = [ing EXCEPT ![p] =
                                     [call EXCEPT !.pc = "register_document",
                                                  !.chunks = chunked.chunks]]
                        /\ successes' = successes
    /\ UNCHANGED <<resolved, rag, query_vars, disk, documents, saved>>

\* lines 329-340: len(chunks) and register_document are inside the inner try,
\* whose handler is `return e`
RegisterDocument(p, fails) ==
    /\ ing[p].pc = "register_document"
    /\ IF create_chunking(ing[p].chunking_strategy_name, ing[p].file).kind = "none"
       THEN /\ Finish(p, ing[p], ExceptionObject("TypeError"))
            /\ UNCHANGED <<documents, knowledge_bases>>
       ELSE IF fails
       THEN /\ Finish(p, ing[p], ExceptionObject("register_document"))
            /\ UNCHANGED <<documents, knowledge_bases>>
       ELSE /\ documents' = Append(documents,
                  [knowledge_base |-> ing[p].kb_name, filename |-> ing[p].file,
                   chunk_count |-> Len(ing[p].chunks)])
            /\ knowledge_bases' =
                  [knowledge_bases EXCEPT ![ing[p].kb_name].document_count = @ + 1]
            /\ Goto(p, "check_path")
    /\ UNCHANGED <<resolved, rag, query_vars, disk, calls, saved>>

\* line 347: os.path.exists(index_path) and os.path.isdir(index_path)
CheckPath(p) ==
    /\ ing[p].pc = "check_path"
    /\ Goto(p, IF IsDir(disk, IndexPath(p)) THEN "load_local" ELSE "makedirs")
    /\ UNCHANGED <<resolved, rag, query_vars, disk, knowledge_bases, documents, calls, saved>>

\* line 350: FAISS.load_local; an empty directory has no index file to read
LoadLocal(p, fails) ==
    /\ ing[p].pc = "load_local"
    /\ IF ~IsDir(disk, IndexPath(p)) \/ disk[IndexPath(p)].index = <<>> \/ fails
       THEN Raise(p, "load_local")
       ELSE /\ ing' = [ing EXCEPT ![p].pc = "add_documents",
                                  ![p].vectorstore = disk[IndexPath(p)].index]
            /\ successes' = successes
    /\ UNCHANGED <<resolved, rag, query_vars, disk, knowledge_bases, documents, calls, saved>>

\* line 352: existing_vectorstore.add_documents(chunks) embeds the chunks
AddDocuments(p, fails) ==
    /\ ing[p].pc = "add_documents"
    /\ IF fails
       THEN Raise(p, "add_documents")
       ELSE /\ ing' = [ing EXCEPT ![p].pc = "save_local",
                                  ![p].vectorstore = ing[p].vectorstore \o ing[p].chunks]
            /\ successes' = successes
    /\ UNCHANGED <<resolved, rag, query_vars, disk, knowledge_bases, documents, calls, saved>>

\* line 358: os.makedirs(index_path, exist_ok=True)
MakeDirs(p) ==
    /\ ing[p].pc = "makedirs"
    /\ disk' = IF IsDir(disk, IndexPath(p)) THEN disk
               ELSE [disk EXCEPT ![IndexPath(p)] = Dir(<<>>)]
    /\ Goto(p, "from_documents")
    /\ UNCHANGED <<resolved, rag, query_vars, knowledge_bases, documents, calls, saved>>

\* line 359: FAISS.from_documents embeds the chunks
FromDocuments(p, fails) ==
    /\ ing[p].pc = "from_documents"
    /\ IF fails
       THEN Raise(p, "from_documents")
       ELSE /\ ing' = [ing EXCEPT ![p].pc = "save_local", ![p].vectorstore = ing[p].chunks]
            /\ successes' = successes
    /\ UNCHANGED <<resolved, rag, query_vars, disk, knowledge_bases, documents, calls, saved>>

\* lines 353 and 360: save_local creates the directory if needed and writes
\* the in-memory index over what is there
SaveLocal(p, fails) ==
    /\ ing[p].pc = "save_local"
    /\ IF fails
       THEN /\ Raise(p, "save_local")
            /\ UNCHANGED <<disk, saved>>
       ELSE /\ disk' = [disk EXCEPT ![IndexPath(p)] = Dir(ing[p].vectorstore)]
            /\ saved' = saved \cup {<<IndexPath(p), ing[p].vectorstore>>}
            /\ Goto(p, "return")
    /\ UNCHANGED <<resolved, rag, query_vars, knowledge_bases, documents, calls>>

\* lines 362-373: the handler of any exception of the index write removes the
\* directory; a failure of rmtree is logged
Rmtree(p, fails) ==
    /\ ing[p].pc = "rmtree"
    /\ disk' = IF IsDir(disk, IndexPath(p)) /\ ~fails
               THEN [disk EXCEPT ![IndexPath(p)] = NoDir]
               ELSE disk
    /\ ing' = [ing EXCEPT ![p].pc = "recreate", ![p].recovered = TRUE]
    /\ successes' = successes
    /\ UNCHANGED <<resolved, rag, query_vars, knowledge_bases, documents, calls, saved>>

\* line 376: os.makedirs(index_path, exist_ok=True)
Recreate(p) ==
    /\ ing[p].pc = "recreate"
    /\ disk' = IF IsDir(disk, IndexPath(p)) THEN disk
               ELSE [disk EXCEPT ![IndexPath(p)] = Dir(<<>>)]
    /\ Goto(p, "recover")
    /\ UNCHANGED <<resolved, rag, query_vars, knowledge_bases, documents, calls, saved>>

\* mutant of Recover: the recovery extends what the directory holds
Recover_extend(p, fails) ==
    /\ ing[p].pc = "recover"
    /\ IF ~fails
       THEN /\ disk' = [disk EXCEPT
                           ![IndexPath(p)] = Dir(disk[IndexPath(p)].index \o ing[p].chunks)]
            /\ saved' = saved \cup {<<IndexPath(p), ing[p].chunks>>}
            /\ Goto(p, "return")
       ELSE /\ Fail(p, "index write")
            /\ UNCHANGED <<disk, saved>>
    /\ UNCHANGED <<resolved, rag, query_vars, knowledge_bases, documents, calls>>

\* lines 377-378: from_documents and save_local of the recovery; an exception
\* here reaches the outer handler
Recover(p, fails) ==
    /\ ing[p].pc = "recover"
    /\ IF ~fails
       THEN /\ disk' = [disk EXCEPT ![IndexPath(p)] = Dir(ing[p].chunks)]
            /\ saved' = saved \cup {<<IndexPath(p), ing[p].chunks>>}
            /\ Goto(p, "return")
       ELSE /\ Fail(p, "index write")
            /\ UNCHANGED <<disk, saved>>
    /\ UNCHANGED <<resolved, rag, query_vars, knowledge_bases, documents, calls>>

\* lines 381-388
Return(p) ==
    /\ ing[p].pc = "return"
    /\ Finish(p, ing[p], SuccessResult(ing[p].file, ing[p].kb_name))
    /\ UNCHANGED <<resolved, rag, query_vars, disk, knowledge_bases, documents, calls, saved>>

(* ------------------------------- readers ------------------------------- *)

\* process_query, for one KB: the probe of possible_paths and FAISS.load_local
\* with the embeddings of embedding_model, as a reader of the tree dsk sees it
QueryLoad(dsk, kb, embedding_model) ==
    LET found == FindKbPath(dsk, kb)
        path == possible_paths(kb)[found]
    IN  IF found = 0
        THEN [status |-> "not_found", folder |-> "", index |-> <<>>]
        ELSE [status |-> IF dsk[path].index = <<>> THEN "load_failed" ELSE "loaded",
              folder |-> path[1], index |-> dsk[path].index]

\* the directories under "{folder}/FAISS_Index"
get_compatible_knowledge_bases(dsk, embedding_model) ==
    {kb \in IngestKBs : IsDir(dsk, <<get_embedding_folder(embedding_model), kb>>)}

(* ----------------------------- specification --------------------------- *)

Next ==
    \/ \E names_in \in DistinctSeqs(KBs), name_in \in KBs \cup {""}, k \in 1..MaxK :
          Call(names_in, name_in, k)
    \/ KBNotFound
    \/ KBEmbedFail
    \/ KBLoadFail
    \/ KBSearchFail
    \/ KBNoDocs
    \/ KBLlmInitFail
    \/ KBLlmCallFail
    \/ KBAnswered
    \/ Finalize
    \/ \E kb_name \in KBs, k \in 1..MaxK, fails \in BOOLEAN : RetrieveDocuments(kb_name, k, fails)

Spec == Init /\ [][Next]_vars

\* the ingestion side starts with an empty index tree and empty tables
InitIngest ==
    /\ disk = [p \in Folders \X IngestKBs |-> NoDir]
    /\ pc = "idle"
    /\ kb_names = <<>>
    /\ retrieval_k = 0
    /\ kb_i = 0
    /\ all_source_docs = <<>>
    /\ all_kb_docs = EmptyMap
    /\ all_answers = <<>>
    /\ queried_kb_count = 0
    /\ successful_kb_count = 0
    /\ answer = Unbound
    /\ llm_calls = 0
    /\ kb_log = <<>>
    /\ messages = <<>>
    /\ result = NoResult
    /\ rd_result = NoResult
    /\ IngestIdle
    /\ rag = RagIdle
    /\ resolved = <<>>

NextIngest ==
    \/ \E p \in Procs, file \in IngestFiles, kb_name \in IngestKBs,
          embedding_model_name \in EmbeddingModels,
          chunking_strategy_name \in ChunkingStrategies,
          outcome \in {"ok", "db_error", "error"} :
          IngestStart(p, file, kb_name, embedding_model_name, chunking_strategy_name, outcome)
    \/ \E p \in Procs, fails \in BOOLEAN : RegisterDocument(p, fails)
    \/ \E p \in Procs : CheckPath(p)
    \/ \E p \in Procs, fails \in BOOLEAN : LoadLocal(p, fails)
    \/ \E p \in Procs, fails \in BOOLEAN : AddDocuments(p, fails)
    \/ \E p \in Procs : MakeDirs(p)
    \/ \E p \in Procs, fails \in BOOLEAN : FromDocuments(p, fails)
    \/ \E p \in Procs, fails \in BOOLEAN : SaveLocal(p, fails)
    \/ \E p \in Procs, fails \in BOOLEAN : Rmtree(p, fails)
    \/ \E p \in Procs : Recreate(p)
    \/ \E p \in Procs, fails \in BOOLEAN : Recover(p, fails)
    \/ \E p \in Procs : Return(p)

SpecIngest == InitIngest /\ [][NextIngest]_vars

\* the query engine with a message store whose add_sources can fail
NextPersist ==
    \/ Next
    \/ FinalizeSourcesFail

SpecPersist == Init /\ [][NextPersist]_vars

\* embedding identifiers of every family that get_embedding_folder tells
\* apart, "other" included (a sentence-transformers model name)
FamilyModels ==
    EmbeddingModels \cup {<<"gemma", "2:2b">>, <<"deepseek", "-r1">>, <<"all-MiniLM", "-L6-v2">>}

\* ingestion calls made one after the other by a single caller, with
\* embedding identifiers of every family
NextSequential ==
    \/ \E file \in IngestFiles, kb_name \in IngestKBs,
          embedding_model_name \in FamilyModels,
          outcome \in {"ok", "error"} :
          IngestStart(1, file, kb_name, embedding_model_name, "recursive", outcome)
    \/ \E fails \in BOOLEAN : RegisterDocument(1, fails)
    \/ CheckPath(1)
    \/ \E fails \in BOOLEAN : LoadLocal(1, fails)
    \/ \E fails \in BOOLEAN : AddDocuments(1, fails)
    \/ MakeDirs(1)
    \/ \E fails \in BOOLEAN : FromDocuments(1, fails)
    \/ \E fails \in BOOLEAN : SaveLocal(1, fails)
    \/ \E fails \in BOOLEAN : Rmtree(1, fails)
    \/ Recreate(1)
    \/ \E fails \in BOOLEAN : Recover(1, fails)
    \/ Return(1)

SpecSequential == InitIngest /\ [][NextSequential]_vars

\* the resolution of embedding identifiers
NextResolve == \E embedding_model \in Identifiers : Resolve(embedding_model)

SpecResolve == InitIngest /\ [][NextResolve]_vars

\* the /query/rag endpoint, one request per run, on the index trees of Init
NextRag ==
    \/ \E kb_names_in \in SeqsUpTo(KBs, MaxRagKBs), embedding_model \in EmbeddingModels,
          k \in 1..MaxK :
          RagQuery(kb_names_in, embedding_model, k)
    \/ \E fails \in BOOLEAN : RagKB(fails)
    \/ \E fails \in BOOLEAN : RagLlm(fails)

SpecRag == Init /\ [][NextRag]_vars

(* ------------------------------ properties ----------------------------- *)

Returned == pc = "done" /\ result.status = "returned"

\* the KBs that produced a per-KB answer
AnsweredKBs == {all_answers[i][1] : i \in 1..Len(all_answers)}

PerKbAnswers == {all_answers[i][2] : i \in 1..Len(all_answers)}

\* 0-based (source, page) of an entry of the returned source list
EntryKey(entry) == <<entry.source, entry.page - 1>>

\* C1: when two or more requested KBs each produced a per-KB answer, the
\* returned content is a synthesized cross-KB answer: the result carries no
\* error, is neither the error message nor the no-information message, and is
\* none of the per-KB answers.
C1_SynthesisReturned ==
    (Returned /\ Len(all_answers) >= 2) =>
        /\ ~result.error
        /\ result.content.kind \notin {"error", "no_info", "unbound"}
        /\ result.content \notin PerKbAnswers

\* the hits that process_query collected over all KBs
CollectedHits == SeqToSet(all_source_docs)

C3_SortedBySimilarity ==
    Returned =>
        LET qr == result.query_relevant
        IN  \A i, j \in 1..Len(qr) : i < j => RatLeq(qr[j].score, qr[i].score)

\* the best-ranked entry comes from the KB requested last, ahead of a strictly
\* less similar entry of the KB requested first
C3_Witness ==
    /\ Returned
    /\ Len(kb_names) = 2
    /\ Len(result.query_relevant) >= 2
    /\ result.query_relevant[1].kb_name = kb_names[2]
    /\ result.query_relevant[2].kb_name = kb_names[1]
    /\ RatLess(result.query_relevant[2].score, result.query_relevant[1].score)

\* the for loop over kb_names has ended and the ranking has not started
LoopDone == pc = "loop" /\ kb_i > Len(kb_names)

\* logged outcomes of a KB that failed, and of a KB whose index never loaded
FailedOutcomes ==
    {"not_found", "embed_error", "load_error", "search_error", "llm_init_error", "llm_error"}

LoadFailures == {"not_found", "embed_error", "load_error"}

\* logged outcomes of a KB whose search returned
SearchedOutcomes == {"no_docs", "llm_init_error", "llm_error", "answered"}

\* the requested KBs whose logged outcome is not a failure
NonFailingKBs == {kb_names[i] : i \in {j \in 1..Len(kb_log) : kb_log[j] \notin FailedOutcomes}}

FromNonFailing(doc) == doc.kb_name \in NonFailingKBs

IsNonFailing(kb) == kb \in NonFailingKBs

RECURSIVE FaultFreeHits(_)
\* the hits that a query over names collects when nothing fails
FaultFreeHits(names) ==
    IF names = <<>> THEN <<>>
    ELSE TagDocs(similarity_search_with_score(KbIndex(disk, Head(names)), retrieval_k),
                 Head(names))
         \o FaultFreeHits(Tail(names))

\* C4: a failure local to one requested KB never aborts the query: every
\* requested KB is processed, the call returns without error, and the hits
\* contributed by the KBs that did not fail are those of a fault-free query
\* over these KBs alone.
C4_LocalFailureAbsorbed ==
    /\ (pc = "loop" /\ ~LoopDone) => Len(kb_log) = kb_i - 1
    /\ (LoopDone \/ Returned) =>
          /\ Len(kb_log) = Len(kb_names)
          /\ queried_kb_count = Len(kb_names)
    /\ LoopDone =>
          SelectSeq(all_source_docs, FromNonFailing)
              = FaultFreeHits(SelectSeq(kb_names, IsNonFailing))
    /\ Returned =>
          /\ ~result.error
          /\ SelectSeq(all_source_docs, FromNonFailing)
                = SortByScore(FaultFreeHits(SelectSeq(kb_names, IsNonFailing)))

\* a KB failed, a KB requested after it was answered and its hits are returned
C4_Witness ==
    /\ Returned
    /\ \E i, j \in 1..Len(kb_log) :
          /\ i < j
          /\ kb_log[i] \in FailedOutcomes \ {"not_found"}
          /\ kb_log[j] = "answered"
          /\ \E e \in 1..Len(result.query_relevant) :
                result.query_relevant[e].kb_name = kb_names[j]

AllFailedToLoad ==
    /\ Len(kb_names) > 0
    /\ Len(kb_log) = Len(kb_names)
    /\ \A i \in 1..Len(kb_log) : kb_log[i] \in LoadFailures

\* C5: for a non-empty list of KB names, process_query does not raise, and if
\* every requested KB failed to load it returns the no-information message
\* with an empty query_relevant list and an empty kb_specific map.
C5_AllLoadsFail ==
    /\ Len(kb_names) > 0 => pc # "raised"
    /\ (Returned /\ AllFailedToLoad) =>
          /\ ~result.error
          /\ result.content = NoInfoMessage(Len(kb_names))
          /\ result.query_relevant = <<>>
          /\ result.kb_specific = EmptyMap

\* two KBs were requested, neither loaded, and one of them holds chunks on disk
C5_Witness ==
    /\ Returned
    /\ AllFailedToLoad
    /\ Len(kb_names) = 2
    /\ \E i \in 1..Len(kb_log) :
          /\ kb_log[i] = "load_error"
          /\ KbIndex(disk, kb_names[i]) # <<>>

\* C6: a query issued with an empty list of KB names completes without
\* raising, and yields the no-information answer with an empty source list.
C6_EmptyKbListAnswered ==
    (pc \in {"done", "raised"} /\ kb_names = <<>>) =>
        /\ Returned
        /\ result.content.kind = "no_info"
        /\ result.query_relevant = <<>>

\* the KBs whose search returned hits
HitKBs == DOMAIN all_kb_docs

SeveralQueriedOneWithHits ==
    /\ Returned
    /\ Len(kb_names) >= 2
    /\ Cardinality(HitKBs) = 1

SourcesFromTheHitKB ==
    \A e \in 1..Len(result.query_relevant) : result.query_relevant[e].kb_name \in HitKBs

C8_NoInfoHasNoSources ==
    (Returned /\ result.content.kind = "no_info") =>
        /\ result.query_relevant = <<>>
        /\ messages[result.message_id].sources = <<>>

\* every hit of every requested KB whose search returned, tagged
SearchedHits ==
    UNION {SeqToSet(TagDocs(similarity_search_with_score(KbIndex(disk, kb_names[i]),
                                                         retrieval_k), kb_names[i])) :
             i \in {j \in 1..Len(kb_log) : kb_log[j] \in SearchedOutcomes}}

ScoredHits ==
    {<<all_source_docs[i].raw_score, all_source_docs[i].score>> : i \in 1..Len(all_source_docs)}
    \cup {<<rd_result.docs[i].dist, rd_result.docs[i].score>> : i \in 1..Len(rd_result.docs)}

\* C10: the score attached to a hit of raw distance d >= 0 is 1/(1+d), lies in
\* (0, 1], and is non-increasing in d.
C10_SimilarityOfDistance ==
    /\ \A p \in ScoredHits :
          /\ p[1] >= 0
          /\ p[2].den > 0
          /\ p[2].num * (1 + p[1]) = p[2].den
          /\ RatLess([num |-> 0, den |-> 1], p[2])
          /\ RatLeq(p[2], One)
    /\ \A p, q \in ScoredHits : p[1] <= q[1] => RatLeq(q[2], p[2])

\* retrieve_documents has returned hits at distance 0 and at a larger distance
C10_Witness ==
    /\ pc = "retrieved"
    /\ rd_result.status = "returned"
    /\ \E i, j \in 1..Len(rd_result.docs) :
          /\ rd_result.docs[i].dist = 0
          /\ rd_result.docs[j].dist > 0

(* ------------------------- properties: ingestion ----------------------- *)

\* number of positions of index that hold chunk c
Occurrences(index, c) == Cardinality({i \in 1..Len(index) : index[i] = c})

\* index holds every chunk of chunks, as often as chunks does
Contains(index, chunks) ==
    \A c \in SeqToSet(chunks) : Occurrences(index, c) >= Occurrences(chunks, c)

\* caller p holds the value that its last call returned
HasReturned(p) == ing[p].pc = "idle" /\ ing[p].result # NoReturn

ReturnedSuccess(p) == HasReturned(p) /\ ing[p].result.status = "success"

\* the index directory of the call held an index when the call started
HadIndex(p) == ing[p].before.isdir /\ ing[p].before.index # <<>>

\* C11: when a call of process_and_chunk_file into a KB that already had an
\* index returns, whatever it returns, every chunk that was in the index when
\* the call started is in the index.
C11_AppendOnly ==
    \A p \in Procs :
        (HasReturned(p) /\ HadIndex(p)) =>
            /\ ing[p].after.isdir
            /\ Contains(ing[p].after.index, ing[p].before.index)

\* the index path of the call that caller p holds the result of
ResultPath(p) == get_faiss_index_path(ing[p].kb_name, ing[p].embedding_model_name)

\* both callers hold a success, of different files ingested into the same KB
\* and embedding family, and neither call ran the handler of the index write
BothIngested(p, q) ==
    /\ p # q
    /\ ReturnedSuccess(p)
    /\ ReturnedSuccess(q)
    /\ ResultPath(p) = ResultPath(q)
    /\ ing[p].result.filename # ing[q].result.filename
    /\ ~ing[p].recovered
    /\ ~ing[q].recovered

\* C12: once two ingestions of different files into the same KB and embedding
\* family have both returned success, whatever the interleaving of their load,
\* add_documents and save steps, the index on disk holds the chunks of both.
C12_NoLostUpdate ==
    \A p, q \in Procs :
        BothIngested(p, q) =>
            /\ disk[ResultPath(p)].isdir
            /\ Contains(disk[ResultPath(p)].index, FileChunks(ing[p].result.filename))
            /\ Contains(disk[ResultPath(p)].index, FileChunks(ing[q].result.filename))

\* the complete indexes that have been written at a path
CompleteIndexes(path) == {w[2] : w \in {v \in saved : v[1] = path}}

\* C13: a reader of a KB at any point of an ingestion gets a complete index: a
\* directory it finds holds an index that a save_local has completed, and it
\* finds no directory only while no index has been written for the KB.
C13_ReaderSeesCompleteIndex ==
    \A kb \in IngestKBs, m \in EmbeddingModels :
        LET seen == QueryLoad(disk, kb, m)
        IN  IF seen.status = "not_found"
            THEN \A v \in saved : v[1][2] # kb
            ELSE seen.index \in CompleteIndexes(<<seen.folder, kb>>)

\* C14: once a KB is registered, its registered embedding model and chunking
\* strategy never change and its row is never removed, whatever the later
\* ingestions into the name pass; its document_count only grows, by one row at
\* a time.
C14_RegistryImmutable ==
    [][\A kb \in IngestKBs :
          knowledge_bases[kb].exists =>
              /\ knowledge_bases'[kb].exists
              /\ knowledge_bases'[kb].embedding_model = knowledge_bases[kb].embedding_model
              /\ knowledge_bases'[kb].chunking_strategy = knowledge_bases[kb].chunking_strategy
              /\ knowledge_bases'[kb].document_count
                    \in {knowledge_bases[kb].document_count,
                         knowledge_bases[kb].document_count + 1}]_vars

\* an ingestion into a registered KB has returned success and added its
\* document, with another embedding model and another chunking strategy than
\* the registered ones (the registered strategy is one that no call succeeds with)
C14_Witness ==
    \E p \in Procs :
        /\ ReturnedSuccess(p)
        /\ knowledge_bases[ing[p].kb_name].document_count >= 1
        /\ knowledge_bases[ing[p].kb_name].embedding_model # ing[p].embedding_model_name
        /\ create_chunking(knowledge_bases[ing[p].kb_name].chunking_strategy,
                           ing[p].result.filename).kind # "chunks"

\* C15: a row of knowledge_bases exists for a name only if an ingestion into
\* that name has completed its index write; a call that fails leaves no row
\* for a KB that did not exist before.
C15_NoPartiallyVisibleKB ==
    \A kb \in IngestKBs :
        knowledge_bases[kb].exists => \E v \in saved : v[1][2] = kb

\* no call of process_and_chunk_file is running
NoCallRunning == \A p \in Procs : ing[p].pc = "idle"

\* number of rows of the documents table that belong to kb
DocumentRows(kb) ==
    Cardinality({i \in 1..Len(documents) : documents[i].knowledge_base = kb})

\* C16: after any sequence of ingestion calls, the number of document rows of
\* a KB and its document_count equal the number of calls into that KB that
\* returned status success.
C16_OneDocumentPerSuccess ==
    NoCallRunning =>
        \A kb \in IngestKBs :
            /\ DocumentRows(kb) = successes[kb]
            /\ knowledge_bases[kb].document_count = successes[kb]

\* C17: what a call of process_and_chunk_file returns is a record with status
\* success that carries filename, page_count, chunk_count and kb_name, or a
\* record with status error that carries a message.
C17_StructuredResult ==
    \A p \in Procs :
        HasReturned(p) =>
            /\ ing[p].result.type = "dict"
            /\ \/ /\ ing[p].result.status = "success"
                  /\ ing[p].result.filename \in IngestFiles
                  /\ ing[p].result.page_count >= 1
                  /\ ing[p].result.chunk_count >= 1
                  /\ ing[p].result.kb_name = ing[p].kb_name
               \/ /\ ing[p].result.status = "error"
                  /\ ing[p].result.message # ""

\* C18: when a call returns status success, the index on disk at the
\* family-keyed path of its KB holds every chunk of its file, after the
\* previous contents if the path held an index when the call started and as
\* the whole index otherwise.
C18_SuccessMeansPersisted ==
    \A p \in Procs :
        ReturnedSuccess(p) =>
            /\ ing[p].after.isdir
            /\ ing[p].after.index =
                  (IF HadIndex(p) THEN ing[p].before.index ELSE <<>>)
                  \o FileChunks(ing[p].result.filename)

\* C19: process_query with embedding model m loads an index of a KB only from
\* the directory of m's embedding family.
C19_LoadsOnlyOwnFamily ==
    \A kb \in IngestKBs, m \in EmbeddingModels :
        LET seen == QueryLoad(disk, kb, m)
        IN  seen.status = "loaded" => seen.folder = get_embedding_folder(m)

\* C20: the compatible-KB listing for embedding model m holds only names of
\* registered KBs whose registered embedding model is of m's family.
C20_ListingMatchesRegistry ==
    \A m \in EmbeddingModels :
        \A kb \in get_compatible_knowledge_bases(disk, m) :
            /\ knowledge_bases[kb].exists
            /\ get_embedding_folder(knowledge_bases[kb].embedding_model)
                  = get_embedding_folder(m)

\* C23: when load_local or add_documents raised during a call and the call
\* returns success, the index directory holds exactly the chunks of the file
\* of this call (calls made one after the other).
C23_RecoveryLeavesOnlyNewChunks ==
    \A p \in Procs :
        (ReturnedSuccess(p) /\ ing[p].raised \in {"load_local", "add_documents"}) =>
            ing[p].after = Dir(FileChunks(ing[p].result.filename))

\* a call into a KB that held the chunks of another file found the index
\* unreadable and returned success
C23_Witness ==
    /\ ReturnedSuccess(1)
    /\ HadIndex(1)
    /\ ing[1].raised \in {"load_local", "add_documents"}
    /\ ing[1].recovered
    /\ \E i \in 1..Len(ing[1].before.index) :
          ing[1].before.index[i].source # ing[1].result.filename
    /\ ing[1].after = Dir(FileChunks(ing[1].result.filename))

(* ----------------------- properties: message store --------------------- *)

\* C21: every process_query call with at least one KB name ends with a
\* displayable result and exactly one assistant message appended to the
\* conversation, whatever fails among the KB, embedding, language-model and
\* add_sources steps.
C21_OneAssistantMessage ==
    (pc = "done" /\ Len(kb_names) >= 1) =>
        /\ result.status = "returned"
        /\ Len(messages) = 1
        /\ messages[1].role = "assistant"
        /\ messages[1].content = result.content

(* -------------------------- properties: rag_query ---------------------- *)

RagReturned == rag.pc = "done"

RagSourceList == rag.result.sources

\* C24: the sources returned by rag_query hold no two entries with the same
\* (source, page).
C24_RagSourcesUnique ==
    RagReturned =>
        \A i, j \in 1..Len(RagSourceList) :
            (/\ RagSourceList[i].source = RagSourceList[j].source
             /\ RagSourceList[i].page = RagSourceList[j].page) => i = j

\* the hits that the search of kb_name returns for the request
RagHits(kb_name) ==
    IF RetrieverPathOk(disk, kb_name, rag.embedding_model)
    THEN similarity_search_with_score(
             disk[get_faiss_index_path(kb_name, rag.embedding_model)].index,
             rag.retrieval_k)
    ELSE <<>>

\* C25: every score in the sources returned by rag_query is 1/(1+d) for the
\* raw distance d of the hit it reports, and lies in (0, 1].
C25_RagScoreNormalized ==
    RagReturned =>
        \A i \in 1..Len(RagSourceList) :
            LET entry == RagSourceList[i]
                hits == RagHits(entry.kb_name)
            IN  /\ RatLess([num |-> 0, den |-> 1], entry.score)
                /\ RatLeq(entry.score, One)
                /\ \E h \in 1..Len(hits) :
                      /\ hits[h].source = entry.source
                      /\ hits[h].page + 1 = entry.page
                      /\ entry.score = Relevance(hits[h].dist)

\* C26: once rag_query has ended, with a response or with the exception of
\* the language-model call, the persisted user message of the query is
\* followed by an assistant message.
C26_RagUserMessageAnswered ==
    rag.pc \in {"done", "raised"} =>
        \A i \in 1..Len(messages) :
            messages[i].role = "user" =>
                \E j \in (i + 1)..Len(messages) : messages[j].role = "assistant"

(* ------------------- properties: ingestion, then query ----------------- *)

\* C27: after process_and_chunk_file returned success for KB name K with
\* embedding identifier M, process_query for K with M finds a directory of K
\* and loads the index that the ingestion wrote under the family of M.
C27_IngestThenQuery ==
    ReturnedSuccess(1) =>
        LET seen == QueryLoad(disk, ing[1].kb_name, ing[1].embedding_model_name)
        IN  /\ seen.status = "loaded"
            /\ seen.folder = get_embedding_folder(ing[1].embedding_model_name)
            /\ seen.index = ing[1].after.index

\* C28: every index directory on disk is under the family of the embedding
\* model that the registry row of its KB records, so that a KB name has an
\* index directory under at most one family.
C28_IndexUnderRegisteredFamily ==
    /\ \A path \in DOMAIN disk :
          IsDir(disk, path) =>
              /\ knowledge_bases[path[2]].exists
              /\ get_embedding_folder(knowledge_bases[path[2]].embedding_model) = path[1]
    /\ \A kb \in IngestKBs :
          Cardinality({f \in Folders : IsDir(disk, <<f, kb>>)}) <= 1

(* --------------------- properties: embedding identifiers --------------- *)

\* C29: two embedding identifiers that get_embedding_folder maps to the same
\* family are resolved by initialize_embedding_model to the same kind of
\* embedding client.
C29_FamilyAgreesWithProvider ==
    \A i, j \in 1..Len(resolved) :
        resolved[i].folder = resolved[j].folder =>
            resolved[i].embeddings = resolved[j].embeddings

(* ------------------------ properties: determinism ---------------------- *)

\* position of a KB in the requested list
KbPosition(kb) == CHOOSE i \in 1..Len(kb_names) : kb_names[i] = kb

\* the hits of the KBs whose search returned, each with the position of its
\* KB in the requested list and its position in the result of the search
PositionedHits ==
    UNION {LET found == TagDocs(similarity_search_with_score(
                                    KbIndex(disk, kb_names[i]), retrieval_k),
                                kb_names[i])
           IN  {[doc |-> found[n], kb_position |-> i, position |-> n] :
                    n \in 1..Len(found)} :
             i \in {j \in 1..Len(kb_log) : kb_log[j] \in SearchedOutcomes}}

\* g comes before h in the ranking: higher similarity, then earlier-requested
\* KB, then earlier in the result of the search
RanksBefore(g, h) ==
    \/ RatLess(h.doc.score, g.doc.score)
    \/ /\ g.doc.score = h.doc.score
       /\ \/ g.kb_position < h.kb_position
          \/ g.kb_position = h.kb_position /\ g.position < h.position

RECURSIVE RankedSources(_, _)
\* the source list that the ranking order and the rule "first hit of a
\* (source, page) wins" determine for the hits S
RankedSources(S, seen) ==
    IF S = {} THEN <<>>
    ELSE LET best == CHOOSE g \in S : \A h \in S \ {g} : RanksBefore(g, h)
         IN  IF source_key(best.doc) \in seen
             THEN RankedSources(S \ {best}, seen)
             ELSE <<FormatSource(best.doc, best.doc.kb_name)>>
                  \o RankedSources(S \ {best}, seen \cup {source_key(best.doc)})

\* C30: the ranked source list that process_query returns is determined by
\* the ordered list of KB names, k, the index contents and which KBs'
\* searches returned: it is the list of the hits in order of similarity, hits
\* of equal similarity in the order of their KBs in the request, with the
\* first hit of every (source, page) kept, so that of two hits of one
\* (source, page) with equal similarity that of the earlier-requested KB stays.
C30_RankingDeterministic ==
    (Returned /\ ~result.error) =>
        result.query_relevant = RankedSources(PositionedHits, {})

\* both requested KBs returned a hit of the same (source, page) with the
\* same similarity and the returned entry is that of the KB requested first
C30_Witness ==
    /\ Returned
    /\ ~result.error
    /\ Len(kb_names) = 2
    /\ \E g, h \in PositionedHits :
          /\ g.kb_position = 1
          /\ h.kb_position = 2
          /\ source_key(g.doc) = source_key(h.doc)
          /\ g.doc.score = h.doc.score
          /\ \E e \in 1..Len(result.query_relevant) :
                /\ EntryKey(result.query_relevant[e]) = source_key(g.doc)
                /\ result.query_relevant[e].kb_name = kb_names[1]

====
